---- MODULE Spec2Model ----
(***************************************************************************)
(* Model of the load generator in src/workload_generator.py:               *)
(*   send_request  - one logical call with a bounded fixed-delay retry     *)
(*   run_workload  - a thread pool of num_requests send_request calls,     *)
(*                   collected with as_completed and reduced to a          *)
(*                   WorkloadResult                                        *)
(*   main          - the sweep over CONFIG['REQUEST_COUNTS']               *)
(* Python values are records with a "type" field, so that None, a dict, a  *)
(* str and a raised exception can be compared with each other.  Every      *)
(* start_time = time.time() starts a stopwatch that Tick advances, so that *)
(* time.time() - start_time is the stopwatch's reading.                    *)
(***************************************************************************)
EXTENDS Integers, Sequences, FiniteSets, Bags, TLC

\* ---------------------------------------------------------------- bounds
MaxCalls == 2   \* largest sum of the entries of REQUEST_COUNTS explored
MaxTime  == 1   \* clock ticks per level, beyond those a sleeping call waits for

\* ------------------------------------------------------- program constants
DEFAULT_N_VALUE == 100000
MAX_RETRIES     == 3
RETRY_DELAY     == 1

VARIABLES
    levels,        \* CONFIG['REQUEST_COUNTS']
    max_retries,   \* CONFIG['MAX_RETRIES']
    trace,         \* history variable: whether calls record their errors
    pc,            \* position of the main thread
    idx,           \* 1-based position of main's for loop in levels
    results,       \* main's results list
    rw_clock,      \* run_workload: time.time() - start_time
    rw_total_time, \* run_workload: end_time - start_time
    max_workers,   \* run_workload: size of the ThreadPoolExecutor
    submitted,     \* run_workload: number of futures created so far
    rw_results,    \* run_workload: results, in completion order
    pending_exc,   \* an exception is propagating out of the with block
    workers        \* bag of the pool threads' send_request calls (futures)

vars == <<levels, max_retries, trace, pc, idx, results, rw_clock, rw_total_time,
          max_workers, submitted, rw_results, pending_exc, workers>>

\* ------------------------------------------------------------ Python values
None       == [type |-> "NoneType"]
Str(s)     == [type |-> "str", s |-> s]
\* response.json() of the target's 200 reply for parameter n
Body(n)    == [type |-> "dict", n |-> n]
Pending    == [type |-> "pending"]
Raised(e)  == [type |-> "raised", exc |-> e]

\* Rationals num/den in lowest terms (Python floats of small integer ratios).
RECURSIVE Gcd(_, _)
Gcd(a, b) == IF b = 0 THEN a ELSE Gcd(b, a % b)
Rat(a, b) == LET g == Gcd(a, b) IN [num |-> a \div g, den |-> b \div g]
Zero      == [num |-> 0, den |-> 1]

RECURSIVE SumSeq(_)
SumSeq(s) == IF s = <<>> THEN 0 ELSE Head(s) + SumSeq(Tail(s))

\* ------------------------------------------------------------ send_request
\* What one requests.get(...) / raise_for_status() / response.json() can do.
\* How long an attempt takes is left open: any number of ticks may pass
\* before it ends, whatever its result.
AttemptResults == {"ok", "http_error", "conn_error", "timeout", "bad_json"}

\* An except clause that misses the decoding error of response.json().
IsRequestExceptionNoJson(e) == e \in {"http_error", "conn_error", "timeout"}

\* An except clause for transport errors only: the HTTPError raised by
\* raise_for_status() is not caught.
IsRequestExceptionNoHttp(e) == e \in {"conn_error", "timeout", "bad_json"}

\* except requests.exceptions.RequestException: HTTPError (raise_for_status),
\* ConnectionError, Timeout and requests' JSONDecodeError (response.json())
\* are all subclasses of RequestException.
IsRequestException(e) == e \in {"http_error", "conn_error", "timeout", "bad_json"}

\* The exhaustion test taken one attempt early.
IsLastAttemptEarly(attempt) == attempt >= max_retries - 2

\* The exhaustion test never true: attempt == CONFIG['MAX_RETRIES'].
IsLastAttemptNever(attempt) == attempt = max_retries

\* if attempt == CONFIG['MAX_RETRIES'] - 1
IsLastAttempt(attempt) == attempt = max_retries - 1

RequestResult(data, t, ok, err) ==
    [type |-> "RequestResult", response_data |-> data, execution_time |-> t,
     success |-> ok, error |-> err]

\* execution_time taken over the attempts only, the retry delays left out.
SuccessResultNoDelays(w) ==
    RequestResult(Body(w.n), w.elapsed - w.attempt * RETRY_DELAY, TRUE, None)

SuccessResult(w) == RequestResult(Body(w.n), w.elapsed, TRUE, None)

\* A failed result built without error=str(e).
FailureResultNoError(w, e) == RequestResult(None, w.elapsed, FALSE, None)

\* The failed result built from the first exception the call has seen.
FailureResultFirstError(w, e) ==
    RequestResult(None, w.elapsed, FALSE,
                  Str(IF w.errs # <<>> THEN w.errs[1] ELSE e))

FailureResult(w, e) == RequestResult(None, w.elapsed, FALSE, Str(e))

\* A call of send_request submitted by level l: the position of its thread,
\* its locals, and the state of its future.
\* errs is a history variable: the errors of the attempts made so far, kept
\* only when trace is set.  No action reads it.
NewWorker(l, n) ==
    [lvl |-> l, n |-> n, pc |-> "start", attempt |-> 0, calls |-> 0,
     elapsed |-> 0, slept |-> 0, result |-> Pending, collected |-> FALSE,
     errs |-> <<>>]

Finish(w, r) == [w EXCEPT !.pc = "finished", !.result = r]

Replace(w, v) == (workers (-) SetToBag({w})) (+) SetToBag({v})

\* The work items of level l that a thread of the pool is executing.
Running(l) ==
    BagCardinality([w \in {v \in BagToSet(workers) :
                              v.lvl = l /\ v.pc \in {"request", "sleep"}}
                    |-> workers[w]])

\* A thread of the pool takes the work item (a new thread is spawned while
\* fewer than max_workers exist, else the item waits for an idle thread);
\* start_time = time.time(); for attempt in range(CONFIG['MAX_RETRIES'])
WStart(w) ==
    /\ w.pc = "start"
    /\ Running(w.lvl) < max_workers
    /\ LET v == [w EXCEPT !.elapsed = 0] IN
       workers' = Replace(w,
            IF max_retries >= 1 THEN [v EXCEPT !.pc = "request", !.attempt = 0]
            ELSE Finish(v, None))
    /\ UNCHANGED <<levels, max_retries, trace, max_workers, pc, idx, results, rw_clock, rw_total_time,
                   submitted, rw_results, pending_exc>>

\* One attempt of call w ending with res: the try block and its except
\* clause.
AfterAttempt(w, res) ==
    LET v == [w EXCEPT !.calls = @ + 1,
                       !.errs = IF trace /\ res # "ok" THEN Append(@, res) ELSE @]
    IN  IF res = "ok" THEN Finish(v, SuccessResult(v))
        ELSE IF ~IsRequestException(res) THEN Finish(v, Raised(res))
        ELSE IF IsLastAttempt(v.attempt) THEN Finish(v, FailureResult(v, res))
        ELSE [v EXCEPT !.pc = "sleep", !.slept = 0]

WRequest(w, res) ==
    /\ w.pc = "request"
    /\ workers' = Replace(w, AfterAttempt(w, res))
    /\ UNCHANGED <<levels, max_retries, trace, max_workers, pc, idx, results, rw_clock, rw_total_time,
                   submitted, rw_results, pending_exc>>

\* time.sleep(1) returns; the for loop takes its next value, or ends and the
\* function returns None.
WWake(w) ==
    /\ w.pc = "sleep"
    /\ w.slept >= RETRY_DELAY
    /\ LET v == [w EXCEPT !.attempt = @ + 1] IN
       workers' = Replace(w,
            IF v.attempt < max_retries THEN [v EXCEPT !.pc = "request"]
            ELSE Finish(v, None))
    /\ UNCHANGED <<levels, max_retries, trace, max_workers, pc, idx, results, rw_clock, rw_total_time,
                   submitted, rw_results, pending_exc>>

\* ------------------------------------------------------------ run_workload
Pool(l) == {w \in BagToSet(workers) : w.lvl = l}

FutureDone(w) == w.pc = "finished"

\* Collection that stops at the first completed future.
AsCompletedFirst(n_collected, n_futures) == n_collected >= 1

\* as_completed(futures) has yielded every future of the list
AsCompletedExhausted(n_collected, n_futures) == n_collected = n_futures

\* ThreadPoolExecutor.__exit__ -> shutdown(wait=True): every thread of the
\* pool has finished its work item.
ShutdownWait(l) == \A w \in Pool(l) : FutureDone(w)

\* A scan of the results that stops at the first failed one.
RECURSIVE SuccessfulResultsUntilFailure(_)
SuccessfulResultsUntilFailure(rs) ==
    IF rs = <<>> \/ ~Head(rs).success THEN <<>>
    ELSE <<Head(rs)>> \o SuccessfulResultsUntilFailure(Tail(rs))

\* successful_results = [r for r in results if r.success]
IsSuccess(r) == r.success
SuccessfulResults(rs) == SelectSeq(rs, IsSuccess)

\* The rate of the failed calls instead of the succeeded ones.
SuccessRateOfFailures(succ, num_requests) ==
    Rat(num_requests - Len(succ), num_requests)

\* success_rate = len(successful_results) / num_requests
SuccessRate(succ, num_requests) == Rat(Len(succ), num_requests)

\* latencies = [r.execution_time for r in successful_results]
Latencies(succ) == [i \in 1..Len(succ) |-> succ[i].execution_time]

\* statistics.mean(latencies) if latencies else 0
AvgCalculationTime(lat) == IF lat # <<>> THEN Rat(SumSeq(lat), Len(lat)) ELSE Zero

\* Throughput counted over the succeeded calls only.
ThroughputOfSuccesses(num_requests, total_time) ==
    IF total_time > 0 THEN Rat(Len(SuccessfulResults(rw_results)), total_time)
    ELSE Zero

\* num_requests / total_time if total_time > 0 else 0
Throughput(num_requests, total_time) ==
    IF total_time > 0 THEN Rat(num_requests, total_time) ELSE Zero

WorkloadResult(num_requests, rs, total_time) ==
    LET succ == SuccessfulResults(rs)
        lat  == Latencies(succ)
    IN  [total_time |-> total_time,
         throughput |-> Throughput(num_requests, total_time),
         avg_calculation_time |-> AvgCalculationTime(lat),
         request_count |-> num_requests,
         success_rate |-> SuccessRate(succ, num_requests),
         latencies |-> lat]

\* results = [result]: the new summary replaces the list.
AppendResultOverwrite(rs, r) == <<r>>

\* The summary is computed and never appended.
AppendResultDropped(rs, r) == rs

\* results.append(result)
AppendResult(rs, r) == Append(rs, r)

\* A pool sized for twice the requested concurrency.
MaxWorkersDouble(num_requests) == 2 * num_requests

\* ThreadPoolExecutor(max_workers=num_requests)
MaxWorkers(num_requests) == num_requests

\* for count in CONFIG['REQUEST_COUNTS']: run_workload(count, n) is entered:
\* start_time is taken and the pool is created (max_workers <= 0 raises
\* ValueError); after the last count the loop ends.
MainLoop ==
    /\ pc = "loop"
    /\ IF idx > Len(levels) THEN
          /\ pc' = "plots"
          /\ UNCHANGED <<rw_clock, max_workers>>
       ELSE
          /\ rw_clock' = 0
          /\ max_workers' = MaxWorkers(levels[idx])
          /\ pc' = IF max_workers' >= 1 THEN "submit" ELSE "raised"
    /\ UNCHANGED <<levels, max_retries, trace, idx, results, rw_total_time, submitted,
                   rw_results, pending_exc, workers>>

\* range(num_requests + 1): one submit too many.
NumSubmitsPlusOne(num_requests) == num_requests + 1

\* The whole batch submitted a second time.
NumSubmitsTwice(num_requests) == 2 * num_requests

\* for _ in range(num_requests): the number of executor.submit calls
NumSubmits(num_requests) == num_requests

\* executor.submit(send_request, n): one more future, its thread may start
\* at once.  After the last submit the list comprehension is complete and
\* as_completed begins.
Submit ==
    /\ pc = "submit"
    /\ submitted < NumSubmits(levels[idx])
    /\ submitted' = submitted + 1
    /\ workers' = workers (+) SetToBag({NewWorker(idx, DEFAULT_N_VALUE)})
    /\ pc' = IF submitted + 1 = NumSubmits(levels[idx]) THEN "collect" ELSE "submit"
    /\ UNCHANGED <<levels, max_retries, trace, max_workers, idx, results, rw_clock, rw_total_time,
                   rw_results, pending_exc>>

\* One round of [future.result() for future in as_completed(futures)]:
\* a finished future of this batch is yielded and its result taken, or its
\* exception re-raised.
Collect(w) ==
    /\ pc = "collect"
    /\ w \in Pool(idx)
    /\ FutureDone(w)
    /\ ~w.collected
    /\ workers' = Replace(w, [w EXCEPT !.collected = TRUE])
    /\ IF w.result.type = "raised" THEN
          /\ pending_exc' = TRUE
          /\ pc' = "exit"
          /\ UNCHANGED rw_results
       ELSE
          /\ rw_results' = Append(rw_results, w.result)
          /\ pc' = IF AsCompletedExhausted(Len(rw_results'), submitted)
                   THEN "exit" ELSE "collect"
          /\ UNCHANGED pending_exc
    /\ UNCHANGED <<levels, max_retries, trace, max_workers, idx, results, rw_clock, rw_total_time,
                   submitted>>

\* Leaving the with block: shutdown(wait=True), then end_time = time.time()
\* and total_time = end_time - start_time, or the pending exception leaves
\* run_workload and main.
ExitPool ==
    /\ pc = "exit"
    /\ ShutdownWait(idx)
    /\ IF pending_exc THEN
          /\ pc' = "raised"
          /\ UNCHANGED rw_total_time
       ELSE
          /\ pc' = "reduce"
          /\ rw_total_time' = rw_clock
    /\ UNCHANGED <<levels, max_retries, trace, max_workers, idx, results, rw_clock, submitted,
                   rw_results, pending_exc, workers>>

HasNone(rs) == \E i \in 1..Len(rs) : rs[i].type = "NoneType"

\* An executor and its futures kept in module-level state across runs.
ReleasePoolKept(ws) == ws

\* run_workload returns: its executor, futures and results are locals and
\* are released; only a thread still running would stay.
ReleasePool(ws) == [w \in {v \in BagToSet(ws) : ~FutureDone(v)} |-> ws[w]]

\* Lines 76-87 of run_workload and lines 147-151 of main: the reduction, the
\* return, results.append(result).  r.success of None raises AttributeError.
\* The futures of the batch go out of scope; a thread still running stays.
Reduce ==
    /\ pc = "reduce"
    /\ IF HasNone(rw_results) THEN
          /\ pc' = "raised"
          /\ UNCHANGED <<results, idx, rw_results, submitted, workers,
                         rw_clock, rw_total_time, max_workers>>
       ELSE
          /\ results' = AppendResult(results,
                 WorkloadResult(levels[idx], rw_results, rw_total_time))
          /\ idx' = idx + 1
          /\ pc' = "loop"
          /\ rw_results' = <<>>
          /\ submitted' = 0
          /\ rw_clock' = 0
          /\ rw_total_time' = 0
          /\ max_workers' = 0
          /\ workers' = ReleasePool(workers)
    /\ UNCHANGED <<levels, max_retries, trace, pending_exc>>

\* create_and_display_plots(results): results[0].total_time / r.total_time
\* raises ZeroDivisionError for a level measured with total_time 0.
Plots ==
    /\ pc = "plots"
    /\ pc' = IF \E i \in 1..Len(results) : results[i].total_time = 0
             THEN "plots_raised" ELSE "done"
    /\ UNCHANGED <<levels, max_retries, trace, max_workers, idx, results, rw_clock, rw_total_time,
                   submitted, rw_results, pending_exc, workers>>

\* end_time taken as soon as the calls are submitted.
InRunSubmitOnly == pc = "submit"

\* The wall clock advances by one unit: every running stopwatch does.  The
\* ticks of a level are capped by MaxTime; a tick that a sleeping call is
\* waiting for is always possible.
InRun == pc \in {"submit", "collect", "exit"}

Sleeping(w) == w.pc = "sleep" /\ w.slept < RETRY_DELAY

Advance(w) ==
    IF w.pc = "request" THEN [w EXCEPT !.elapsed = @ + 1]
    ELSE IF w.pc = "sleep" THEN
        [w EXCEPT !.elapsed = @ + 1,
                  !.slept = IF @ < RETRY_DELAY THEN @ + 1 ELSE @]
    ELSE w

Tick ==
    /\ \/ InRun /\ rw_clock < MaxTime
       \/ \E w \in BagToSet(workers) : Sleeping(w)
    /\ workers' = BagOfAll(Advance, workers)
    /\ rw_clock' = IF InRun THEN rw_clock + 1 ELSE rw_clock
    /\ UNCHANGED <<levels, max_retries, trace, max_workers, pc, idx, results, rw_total_time,
                   submitted, rw_results, pending_exc>>

\* ---------------------------------------------------------- configurations
\* The non-empty lists of levels >= 1 whose entries sum to at most budget.
RECURSIVE LevelSeqs(_)
LevelSeqs(budget) ==
    {<<>>} \cup UNION {{<<c>> \o s : s \in LevelSeqs(budget - c)} : c \in 1..budget}

\* The configurations the RunConfiguration invariant allows.
ValidLevels == LevelSeqs(MaxCalls) \ {<<>>}

InitRun ==
    /\ pc = "loop"
    /\ idx = 1
    /\ results = <<>>
    /\ rw_clock = 0
    /\ rw_total_time = 0
    /\ max_workers = 0
    /\ submitted = 0
    /\ rw_results = <<>>
    /\ pending_exc = FALSE
    /\ workers = EmptyBag

Init ==
    /\ levels \in ValidLevels
    /\ max_retries \in 1..MAX_RETRIES
    /\ trace = FALSE
    /\ InitRun

Next ==
    \/ MainLoop
    \/ Submit
    \/ \E w \in BagToSet(workers) : Collect(w)
    \/ ExitPool
    \/ Reduce
    \/ Plots
    \/ \E w \in BagToSet(workers) : WStart(w)
    \/ \E w \in BagToSet(workers), res \in AttemptResults : WRequest(w, res)
    \/ \E w \in BagToSet(workers) : WWake(w)
    \/ Tick

Spec == Init /\ [][Next]_vars

MainStep == MainLoop \/ Submit \/ (\E w \in BagToSet(workers) : Collect(w))
               \/ ExitPool \/ Reduce \/ Plots

WorkerStep ==
    \E w \in BagToSet(workers) :
        WStart(w) \/ (\E res \in AttemptResults : WRequest(w, res)) \/ WWake(w)

\* The main thread and the pool threads are scheduled, every attempt returns
\* or times out, and the clock advances.
FairSpec == Spec /\ WF_vars(MainStep) /\ WF_vars(WorkerStep) /\ WF_vars(Tick)

\* Every list CONFIG['REQUEST_COUNTS'] can hold, entries below 1 included
\* (0 stands for them: range(c) is empty and ThreadPoolExecutor rejects c for
\* every c <= 0).  An entry costs max(c, 1) of the budget.
RECURSIVE AnyLevelSeqs(_)
AnyLevelSeqs(budget) ==
    IF budget < 1 THEN {<<>>}
    ELSE {<<>>} \cup UNION {{<<c>> \o s :
                          s \in AnyLevelSeqs(budget - (IF c >= 1 THEN c ELSE 1))}
                       : c \in 0..budget}

\* The program started on any CONFIG: nothing in main, run_workload or
\* send_request looks at the configuration before using it.
InitAnyConfig ==
    /\ levels \in AnyLevelSeqs(MaxCalls)
    /\ max_retries \in 0..MAX_RETRIES
    /\ trace = FALSE
    /\ InitRun

ConfigSpec == InitAnyConfig /\ [][Next]_vars

\* One call of send_request on its own, its errors recorded.
InitSingleCall ==
    /\ levels = <<1>>
    /\ max_retries \in 1..MAX_RETRIES
    /\ trace = TRUE
    /\ InitRun

RetrySpec == InitSingleCall /\ [][Next]_vars

\* ------------------------------------------------------------------ claims
Calls == BagToSet(workers)

Returned(w) == w.pc = "finished"

IsOutcome(r) == r.type = "RequestResult"

C2_RetryExhaustion ==
    \A w \in Calls :
        (Returned(w) /\ IsOutcome(w.result) /\ ~w.result.success) =>
            /\ w.calls = max_retries
            /\ w.result.execution_time >= (max_retries - 1) * RETRY_DELAY

\* A call that failed with max_retries = 3 after 3 attempts.
C2_Witness ==
    /\ max_retries = 3
    /\ \E w \in Calls :
          /\ Returned(w) /\ IsOutcome(w.result) /\ ~w.result.success
          /\ w.calls = 3
          /\ w.result.execution_time >= 2

Exclusive(r) ==
    IF r.success THEN r.response_data # None /\ r.error = None
    ELSE r.error # None /\ r.response_data = None

\* C3: every returned result has exactly one of response_data / error set:
\* the payload when success is true, the error when it is false.
C3_Exclusivity ==
    /\ \A w \in Calls : (Returned(w) /\ IsOutcome(w.result)) => Exclusive(w.result)
    /\ \A i \in 1..Len(rw_results) : IsOutcome(rw_results[i]) => Exclusive(rw_results[i])

\* A batch that collected one succeeded and one failed result.
C3_Witness ==
    /\ Len(rw_results) = 2
    /\ \E i, j \in 1..2 : rw_results[i].success /\ ~rw_results[j].success

PoolSize(l) == BagCardinality([w \in {v \in Calls : v.lvl = l} |-> workers[w]])

\* C4: the reduction is reached only when every call of the batch has
\* produced its outcome and that outcome has been collected; a failed or
\* slow call neither removes another call nor aborts run_workload.
C4_AwaitAll ==
    /\ pc = "reduce" =>
          /\ PoolSize(idx) = levels[idx]
          /\ \A w \in Pool(idx) : FutureDone(w) /\ w.collected /\ IsOutcome(w.result)
          /\ Len(rw_results) = levels[idx]
    /\ pc \in {"collect", "exit", "reduce"} => PoolSize(idx) = submitted
    /\ pc # "raised"

\* The reduction is reached with a failed call that took longer than a
\* succeeded call of the same batch.
C4_Witness ==
    /\ pc = "reduce"
    /\ \E v, w \in Pool(idx) :
          /\ ~v.result.success
          /\ w.result.success
          /\ v.result.execution_time > w.result.execution_time

\* C5: a level of concurrency C submits exactly C calls, all with the same
\* parameter, and hands exactly C outcomes to the reduction.
C5_ExactlyC ==
    /\ PoolSize(idx) = submitted
    /\ pc \in {"submit", "collect", "exit", "reduce"} => submitted <= levels[idx]
    /\ pc \in {"collect", "exit", "reduce"} => submitted = levels[idx]
    /\ \A w \in Calls : w.n = DEFAULT_N_VALUE
    /\ pc = "reduce" =>
          /\ Len(rw_results) = levels[idx]
          /\ \A i \in 1..Len(rw_results) : IsOutcome(rw_results[i])

\* A level of concurrency 2 at its reduction with 2 outcomes.
C5_Witness ==
    /\ pc = "reduce"
    /\ levels[idx] = 2
    /\ Len(rw_results) = 2
    /\ PoolSize(idx) = 2

\* Python's round(): nearest integer, ties to the even one.
Round(q) ==
    LET f == q.num \div q.den
        r == q.num % q.den
    IN  IF 2 * r < q.den THEN f
        ELSE IF 2 * r > q.den THEN f + 1
        ELSE IF f % 2 = 0 THEN f ELSE f + 1

RatTimesInt(q, k) == Rat(q.num * k, q.den)

RateInUnit(q) == 0 <= q.num /\ q.num <= q.den /\ q.den > 0

\* C6: every summary has 0 <= success_rate <= 1 and
\* len(latencies) = round(success_rate * request_count).
C6_SummaryInvariant ==
    \A i \in 1..Len(results) :
        /\ RateInUnit(results[i].success_rate)
        /\ Len(results[i].latencies) =
              Round(RatTimesInt(results[i].success_rate, results[i].request_count))

\* A summary of a level where one of two calls succeeded.
C6_Witness ==
    \E i \in 1..Len(results) :
        /\ results[i].request_count = 2
        /\ results[i].success_rate = Rat(1, 2)
        /\ Len(results[i].latencies) = 1

AllFailed(S) == S.success_rate = Zero

\* C7: a level whose calls all failed yields success_rate 0, no latencies and
\* a mean latency that is a "no data" value, different from a mean of 0
\* (the mean of the latencies <<0>>).
C7_NoDataMarker ==
    \A i \in 1..Len(results) :
        AllFailed(results[i]) =>
            /\ results[i].latencies = <<>>
            /\ results[i].avg_calculation_time # AvgCalculationTime(<<0>>)

\* The part of C7 the code keeps: no exception, rate 0, no latencies.
C7_AllFailureSummary ==
    /\ pc # "raised"
    /\ \A i \in 1..Len(results) :
          AllFailed(results[i]) <=> results[i].latencies = <<>>

SweepOver == pc \in {"plots", "done", "plots_raised"}

InFlight(w) == ~FutureDone(w)

\* C9: levels never overlap: every call in the pool belongs to the level the
\* sweep is at, calls exist only while that level runs, and a call of level
\* l exists only after the summaries of levels 1..l-1 have been appended.
C9_LevelsNeverOverlap ==
    /\ \A w \in Calls : w.lvl = idx /\ Len(results) = w.lvl - 1
    /\ (\E w \in Calls : InFlight(w)) => pc \in {"submit", "collect", "exit"}
    /\ pc \in {"loop", "plots", "done", "plots_raised"} => workers = EmptyBag

\* The second level of a sweep has a call in flight.
C9_Witness ==
    \E w \in Calls : InFlight(w) /\ w.lvl = 2 /\ w.pc = "sleep"

\* Steps a call still has to take: per attempt left a request, a tick of its
\* sleep and a wake-up, then its collection by the main thread.
StepsLeft(w) ==
    CASE w.pc = "start"    -> 3 * max_retries + 2
      [] w.pc = "request"  -> 3 * (max_retries - w.attempt) + 1
      [] w.pc = "sleep"    -> 3 * (max_retries - w.attempt) - 1 + (RETRY_DELAY - w.slept)
      [] w.pc = "finished" -> IF w.collected THEN 0 ELSE 1

\* The sum of StepsLeft over the calls of the pool.
PoolStepsLeft ==
    BagCardinality([w \in {v \in Calls : StepsLeft(v) > 0} |->
                        workers[w] * StepsLeft(w)])

LevelCost(c) == 5 + MaxTime + c * (3 * max_retries + 3)

RECURSIVE LevelsCost(_)
LevelsCost(i) == IF i > Len(levels) THEN 0 ELSE LevelCost(levels[i]) + LevelsCost(i + 1)

MainStepsLeft ==
    CASE pc = "submit"  -> 4 + (levels[idx] - submitted) * (3 * max_retries + 3)
      [] pc = "collect" -> 3
      [] pc = "exit"    -> 2
      [] pc = "reduce"  -> 1

FreeTicksLeft == IF InRun /\ rw_clock < MaxTime THEN MaxTime - rw_clock ELSE 0

\* An upper bound of the number of steps the sweep can still take.
Variant ==
    CASE pc = "loop" -> LevelsCost(idx) + 2
      [] pc \in {"submit", "collect", "exit", "reduce"} ->
            LevelsCost(idx + 1) + 2 + MainStepsLeft + FreeTicksLeft
            + PoolStepsLeft
      [] pc = "plots" -> 1
      [] OTHER -> 0

\* C10: under fair scheduling the sweep ends with a summary for every level,
\* also when every call of a level fails.
C10_Eventually == <>(SweepOver /\ Len(results) = Len(levels))

\* C10, as the three facts that give it: until the sweep is over some thread
\* or the clock can take a step, every step lowers the bound Variant on the
\* steps left (so a fair run cannot go on for ever), and once the sweep is
\* over there is a summary for every level.
C10_SweepCompletes ==
    /\ [](SweepOver \/ ENABLED (MainStep \/ WorkerStep \/ Tick))
    /\ [](SweepOver => Len(results) = Len(levels))
    /\ [][Variant' < Variant]_vars

\* A finished sweep one of whose levels had every call fail.
C10_Witness ==
    /\ SweepOver
    /\ Len(results) = Len(levels)
    /\ \E i \in 1..Len(results) : AllFailed(results[i])

\* A configuration the RunConfiguration invariant forbids.  CONFIG['TIMEOUT']
\* is not part of the state: no line of the program compares it to anything.
InvalidConfig ==
    \/ levels = <<>>
    \/ \E i \in 1..Len(levels) : levels[i] < 1
    \/ max_retries < 1

\* C11: an invalid configuration is rejected at startup: the program started
\* on one is only ever at its start or in the error state, no call has been
\* launched and no summary made; and the sweep raises for no other reason.
C11_FailFast ==
    /\ InvalidConfig =>
          /\ pc \in {"loop", "raised"}
          /\ submitted = 0
          /\ workers = EmptyBag
          /\ results = <<>>
    /\ pc = "raised" => InvalidConfig

Succeeded(w) == Returned(w) /\ IsOutcome(w.result) /\ w.result.success

\* C12: a call whose k-th attempt is its first success (1 <= k <= max_retries)
\* returns a succeeded outcome at that attempt: it has made exactly k attempts
\* and the loop is at its k-th pass, and its execution_time is the whole time
\* since before the first attempt, the k - 1 retry delays included.
C12_FirstSuccessReturns ==
    \A w \in Calls : Succeeded(w) =>
        /\ w.calls = w.attempt + 1
        /\ w.calls \in 1..max_retries
        /\ w.result.execution_time = w.elapsed
        /\ w.result.execution_time >= (w.calls - 1) * RETRY_DELAY
        /\ w.result.response_data = Body(w.n)
        /\ w.result.error = None

\* A call that succeeded at its last allowed attempt, after two delays.
C12_Witness ==
    \E w \in Calls :
        /\ Succeeded(w)
        /\ w.calls = 3
        /\ max_retries = 3
        /\ w.result.execution_time >= 2 * RETRY_DELAY

One == [num |-> 1, den |-> 1]

\* The locals of run_workload as a first call of it finds them.
FreshRun ==
    /\ rw_clock = 0
    /\ rw_total_time = 0
    /\ max_workers = 0
    /\ submitted = 0
    /\ rw_results = <<>>
    /\ pending_exc = FALSE
    /\ workers = EmptyBag

\* No run of a single call lasts longer: the free ticks and the retry delays.
LongestRun == MaxTime + (MAX_RETRIES - 1) * RETRY_DELAY

\* The summaries one run of run_workload(1, n) can return when its call
\* succeeds: a sweep of the level alone, whatever the time it takes.
SoloSummaries ==
    {WorkloadResult(1, <<RequestResult(Body(DEFAULT_N_VALUE), e, TRUE, None)>>, t) :
        t \in 0..LongestRun, e \in 0..LongestRun}

\* C13: no state leaks from one run of run_workload into the next: every run
\* starts from the locals a first run starts from, and a run of concurrency 1
\* whose call succeeded has success_rate 1 and a summary that a run of the
\* level on its own can return, the second such run of a sweep as the first.
C13_NoStateLeak ==
    /\ pc = "loop" => FreshRun
    /\ \A i \in 1..Len(results) :
          results[i].request_count = 1 /\ results[i].latencies # <<>> =>
              /\ results[i].success_rate = One
              /\ results[i] \in SoloSummaries

\* The second run of concurrency 1 is about to start after a first run whose
\* call succeeded.
C13_Witness ==
    /\ levels = <<1, 1>>
    /\ Len(results) = 2
    /\ results[1].success_rate = One
    /\ results[2].success_rate = One

\* C14: the pool of a level is bounded by the level and scoped to it: it has
\* at most levels[idx] threads, at most that many calls of a level execute at
\* once, only calls of the level being run execute, and once run_workload has
\* been left, by return or by an error, with calls failed or not, every call
\* it launched has finished.
C14_PoolBoundedAndScoped ==
    /\ InRun => max_workers <= levels[idx]
    /\ \A l \in 1..Len(levels) : Running(l) <= levels[l]
    /\ \A w \in Calls : ~Returned(w) => InRun /\ w.lvl = idx
    /\ pc \in {"reduce", "raised"} =>
          /\ PoolSize(idx) <= levels[idx]
          /\ \A w \in Calls : Returned(w)

\* run_workload has raised after launching the two calls of its level; none
\* of them is still running.
C14_Witness ==
    /\ pc = "raised"
    /\ levels[idx] = 2
    /\ PoolSize(idx) = 2
    /\ \A w \in Calls : Returned(w)

\* The values of a sequence with their multiplicities.
SeqToBag(s) ==
    [v \in {s[i] : i \in 1..Len(s)} |-> Cardinality({i \in 1..Len(s) : s[i] = v})]

\* The execution_time values of the succeeded calls of the pool, with their
\* multiplicities, whatever the order in which the calls completed.
SucceededTimes ==
    LET ok == {w \in Pool(idx) : Succeeded(w)} IN
    [e \in {w.result.execution_time : w \in ok} |->
        BagCardinality([w \in {v \in ok : v.result.execution_time = e} |-> workers[w]])]

NumSucceeded ==
    BagCardinality([w \in {v \in Pool(idx) : Succeeded(v)} |-> workers[w]])

\* The collected results in another order of completion.
Reordered(rs, p) == [i \in 1..Len(rs) |-> rs[p[i]]]

\* C15: the reduction does not depend on the order of completion: the
\* success_rate and the multiset of latencies it computes from the collected
\* results are those of the set of outcomes of the level's calls (latencies
\* are exactly the execution_time values of the succeeded calls), and every
\* other order of the same results gives the same two values.
C15_OrderIndependent ==
    pc = "reduce" /\ ~HasNone(rw_results) =>
        LET S == WorkloadResult(levels[idx], rw_results, rw_total_time) IN
        /\ S.success_rate = Rat(NumSucceeded, levels[idx])
        /\ SeqToBag(S.latencies) = SucceededTimes
        /\ \A p \in Permutations(1..Len(rw_results)) :
              LET T == WorkloadResult(levels[idx], Reordered(rw_results, p),
                                      rw_total_time)
              IN  /\ T.success_rate = S.success_rate
                  /\ SeqToBag(T.latencies) = SeqToBag(S.latencies)

\* Two calls completed, the failed one first and the succeeded one second.
C15_Witness ==
    /\ pc = "reduce"
    /\ Len(rw_results) = 2
    /\ ~rw_results[1].success
    /\ rw_results[2].success
    /\ rw_results[2].execution_time > 0

\* What a call does and returns, the text of the error left out.
Course(v) ==
    [pc |-> v.pc, attempt |-> v.attempt, calls |-> v.calls, slept |-> v.slept,
     elapsed |-> v.elapsed, returns |-> v.result.type,
     success |-> IF IsOutcome(v.result) THEN v.result.success ELSE FALSE,
     execution_time |-> IF IsOutcome(v.result) THEN v.result.execution_time ELSE 0]

TransportErrors == {"conn_error", "timeout"}

Failed(w) == Returned(w) /\ IsOutcome(w.result) /\ ~w.result.success

\* C17: the error of a failed outcome is the description of the error of the
\* last attempt: with the errors of all attempts recorded, a call that has
\* exhausted its retries made max_retries failing attempts and returns
\* str(e) of the last of them, whatever the earlier ones were.
C17_LastError ==
    \A w \in Calls : Failed(w) =>
        /\ Len(w.errs) = max_retries
        /\ w.calls = max_retries
        /\ w.result.error = Str(w.errs[Len(w.errs)])

\* A call failed after three attempts with three different errors.
C17_Witness ==
    \E w \in Calls :
        /\ Failed(w)
        /\ Len(w.errs) = 3
        /\ w.errs[1] # w.errs[3]
        /\ w.errs[2] # w.errs[3]
        /\ w.errs[1] # w.errs[2]

\* C18: in every summary throughput is request_count / total_time when
\* total_time > 0 and 0 otherwise, request_count being the level's requested
\* concurrency: the failed calls count in the numerator, so the number of
\* succeeded calls has no part in it.
C18_Throughput ==
    \A i \in 1..Len(results) :
        LET S == results[i] IN
        /\ S.request_count = levels[i]
        /\ S.throughput.den > 0
        /\ IF S.total_time > 0
           THEN S.throughput.num * S.total_time = S.throughput.den * levels[i]
           ELSE S.throughput = Zero

\* A level of two calls, one failed and one succeeded, measured over a
\* positive time.
C18_Witness ==
    \E i \in 1..Len(results) :
        /\ results[i].request_count = 2
        /\ Len(results[i].latencies) = 1
        /\ results[i].total_time > 0
        /\ results[i].throughput = Rat(2, results[i].total_time)

\* C19: under a monotone clock every latency of a summary is at most the
\* summary's total_time: each call's stopwatch starts after run_workload's
\* and stops before it.  The same holds of the collected results when the
\* reduction begins.
C19_LatencyWithinWallTime ==
    /\ \A i \in 1..Len(results) :
          \A j \in 1..Len(results[i].latencies) :
              results[i].latencies[j] <= results[i].total_time
    /\ pc = "reduce" =>
          \A j \in 1..Len(rw_results) :
              IsOutcome(rw_results[j]) => rw_results[j].execution_time <= rw_total_time

\* A summary whose call took the whole measured time, a retry delay included.
C19_Witness ==
    \E i \in 1..Len(results) :
        /\ results[i].latencies # <<>>
        /\ results[i].latencies[1] = results[i].total_time
        /\ results[i].total_time >= 2

\* The HTTP attempts made so far by the calls of level l.
TotalAttempts(l) ==
    BagCardinality([w \in {v \in Calls : v.lvl = l /\ v.calls > 0} |->
                        workers[w] * w.calls])

\* C20: the load of a level is bounded: a call never makes more than
\* max_retries attempts and has made at least one when it returns, so a
\* level of C calls has issued between C and C * max_retries attempts when
\* its reduction begins; main launches no call beyond the C of the level and
\* runs each level once.
C20_BoundedLoad ==
    /\ \A w \in Calls :
          /\ w.calls <= max_retries
          /\ Returned(w) => w.calls >= 1
    /\ pc \in {"submit", "collect", "exit", "reduce"} =>
          /\ PoolSize(idx) <= levels[idx]
          /\ TotalAttempts(idx) <= levels[idx] * max_retries
          /\ Len(results) = idx - 1
    /\ pc = "reduce" => TotalAttempts(idx) >= levels[idx]

\* A level of two calls that used its whole budget of attempts.
C20_Witness ==
    /\ pc = "reduce"
    /\ levels[idx] = 2
    /\ max_retries = 3
    /\ TotalAttempts(idx) = 6

====
